---- MODULE Spec2Model ----
(***************************************************************************)
(* Model of app.py, the PickMe trip dashboard: one run of the script over  *)
(* an uploaded list of trip events (lines 36-367), and its two helpers     *)
(* safe_get (lines 12-24) and format_timestamp (lines 26-32).              *)
(*                                                                         *)
(* JSON / Python values are tagged records:                                *)
(*   None  [t |-> "none"]            int  [t |-> "int", n |-> 7]           *)
(*   str   [t |-> "str", s |-> "x"]  bool [t |-> "bool", b |-> TRUE]       *)
(*   list  [t |-> "list", items |-> <<...>>]                               *)
(*   dict  [t |-> "dict", pairs |-> << [key |-> k, val |-> v], ... >>]     *)
(* An epoch number too wide for a 32-bit integer is held as                *)
(*   [t |-> "num", kilo |-> v \div 1000, unit |-> v % 1000].               *)
(***************************************************************************)
EXTENDS Integers, Sequences, FiniteSets, TLC

VARIABLES
    \* ---- one run of the script (lines 36-367)
    data, pc,
    trip_created_event, trip_fare_event, trip_completed_event, trip_ended_event,
    pickups, drops, pickup, drop, passenger_info,
    ride_trip_rows, df_ride_trip,
    estimated_fares, price_tables, actual,
    bidding_rows, df_bidding,
    timeline_data, df_timeline,
    route_points, markers, osrm, warning, rendered, error,
    \* ---- one call of safe_get (lines 12-24)
    sg_d, sg_keys, sg_default, sg_result, sg_pc

runVars == << data, pc, trip_created_event, trip_fare_event, trip_completed_event,
              trip_ended_event, pickups, drops, pickup, drop, passenger_info,
              ride_trip_rows, df_ride_trip, estimated_fares, price_tables, actual,
              bidding_rows, df_bidding, timeline_data, df_timeline,
              route_points, markers, osrm, warning, rendered, error >>

sgVars == << sg_d, sg_keys, sg_default, sg_result, sg_pc >>

vars == << runVars, sgVars >>

-----------------------------------------------------------------------------
(* Bounds of the model.                                                    *)

\* longest uploaded event list
MaxEvents == 3
\* longest key path handed to safe_get
MaxPath == 2
\* longest list inside a structure handed to safe_get
MaxList == 2

-----------------------------------------------------------------------------
(* Python values.                                                          *)

NoneV == [t |-> "none"]
IntV(n) == [t |-> "int", n |-> n]
StrV(s) == [t |-> "str", s |-> s]
BoolV(b) == [t |-> "bool", b |-> b]
NumV(k, u) == [t |-> "num", kilo |-> k, unit |-> u]
ListV(xs) == [t |-> "list", items |-> xs]
DictV(ps) == [t |-> "dict", pairs |-> ps]
KV(k, v) == [key |-> StrV(k), val |-> v]
KVi(i, v) == [key |-> IntV(i), val |-> v]
EmptyDict == DictV(<< >>)
EmptyList == ListV(<< >>)

\* a name the run has not assigned yet: reading it raises NameError
Unbound == [t |-> "unbound"]
\* an exception leaving a call
Raise(name) == [t |-> "raise", exc |-> name]

\* key in d
HasKey(d, k) == \E i \in 1..Len(d.pairs) : d.pairs[i].key = k

\* d[key] for a key that is in d
Item(d, k) == d.pairs[CHOOSE i \in 1..Len(d.pairs) : d.pairs[i].key = k].val

\* d.get(key, default)
DictGet(d, k, default) == IF HasKey(d, k) THEN Item(d, k) ELSE default

\* d.get("name"), d.get("name", default) with a string key
Get(d, name) == DictGet(d, StrV(name), NoneV)
GetOr(d, name, default) == DictGet(d, StrV(name), default)

\* bool(v): the truth value of v in an if
Truthy(v) ==
    CASE v.t = "none" -> FALSE
      [] v.t = "bool" -> v.b
      [] v.t = "int"  -> v.n # 0
      [] v.t = "num"  -> v.kilo # 0 \/ v.unit # 0
      [] v.t = "str"  -> v.s # ""
      [] v.t = "list" -> Len(v.items) > 0
      [] v.t = "dict" -> Len(v.pairs) > 0
      [] OTHER        -> TRUE

\* len(v) of a list or dict
PyLen(v) == IF v.t = "list" THEN Len(v.items) ELSE Len(v.pairs)

\* str(v), as astype(str) applies it to a cell
PyStr(v) ==
    CASE v.t = "none" -> StrV("None")
      [] v.t = "int"  -> StrV(ToString(v.n))
      [] v.t = "bool" -> StrV(IF v.b THEN "True" ELSE "False")
      [] OTHER        -> v

-----------------------------------------------------------------------------
(* safe_get, lines 12-24.                                                  *)

\* d[key] on a list: a negative key counts from the end, IndexError outside
ListIndex(xs, n) ==
    IF 0 <= n /\ n < Len(xs) THEN xs[n + 1]
    ELSE IF n < 0 /\ -n <= Len(xs) THEN xs[Len(xs) + n + 1]
    ELSE Raise("IndexError")

\* the bound of line 16 off by one: key < len(d) - 1
RECURSIVE safe_get_short(_, _, _)
safe_get_short(d, keys, default) ==
    IF keys = << >> THEN d
    ELSE LET key == Head(keys) IN
         IF d.t = "list" /\ key.t = "int" THEN
              IF key.n < Len(d.items) - 1 THEN
                   LET x == ListIndex(d.items, key.n) IN
                   IF x.t = "raise" THEN x ELSE safe_get_short(x, Tail(keys), default)
              ELSE default
         ELSE IF d.t = "dict" THEN
              safe_get_short(DictGet(d, key, default), Tail(keys), default)
         ELSE default

RECURSIVE safe_get(_, _, _)
safe_get(d, keys, default) ==
    IF keys = << >> THEN d
    ELSE LET key == Head(keys) IN
         IF d.t = "list" /\ key.t = "int" THEN
              IF key.n < Len(d.items) THEN
                   LET x == ListIndex(d.items, key.n) IN
                   IF x.t = "raise" THEN x ELSE safe_get(x, Tail(keys), default)
              ELSE default
         ELSE IF d.t = "dict" THEN
              safe_get(DictGet(d, key, default), Tail(keys), default)
         ELSE default

\* safe_get(d, "a", "b", ...) with string keys and default None
Path1(a) == << StrV(a) >>
Path2(a, b) == << StrV(a), StrV(b) >>

-----------------------------------------------------------------------------
(* format_timestamp, lines 26-32.                                          *)

MsThresholdKilo == 1000000000
SecondsPerDay == 86400
MaxYear == 9999

\* ts > 1e12
AboveMsThreshold(ts) ==
    ts.kilo > MsThresholdKilo \/ (ts.kilo = MsThresholdKilo /\ ts.unit > 0)

\* whole days since the epoch and second of the day of the instant that
\* datetime.fromtimestamp is handed: ts / 1000 above the threshold, ts below
EpochDays(ts) ==
    IF AboveMsThreshold(ts) THEN ts.kilo \div SecondsPerDay
    ELSE 10 * (ts.kilo \div 864) + (1000 * (ts.kilo % 864) + ts.unit) \div SecondsPerDay

SecondOfDay(ts) ==
    IF AboveMsThreshold(ts) THEN ts.kilo % SecondsPerDay
    ELSE (1000 * (ts.kilo % 864) + ts.unit) % SecondsPerDay

\* the proleptic Gregorian date of a day number, as datetime computes it
CivilFromDays(z0) ==
    LET z   == z0 + 719468
        era == z \div 146097
        doe == z - era * 146097
        yoe == (doe - doe \div 1460 + doe \div 36524 - doe \div 146096) \div 365
        doy == doe - (365 * yoe + yoe \div 4 - yoe \div 100)
        mp  == (5 * doy + 2) \div 153
        d   == doy - (153 * mp + 2) \div 5 + 1
        m   == IF mp < 10 THEN mp + 3 ELSE mp - 9
        y   == yoe + era * 400 + (IF m <= 2 THEN 1 ELSE 0)
    IN << y, m, d >>

\* strftime("%Y-%m-%d %H:%M:%S"): the zero-padded fields, most significant first
DateStr(ymd, sod) ==
    [t |-> "datestr",
     fields |-> ymd \o << sod \div 3600, (sod % 3600) \div 60, sod % 60 >>]

format_timestamp(ts) ==
    IF ts.t # "num" THEN ts                      \* TypeError in ts > 1e12: except
    ELSE LET ymd == CivilFromDays(EpochDays(ts)) IN
         IF ymd[1] > MaxYear THEN ts             \* ValueError in fromtimestamp: except
         ELSE DateStr(ymd, SecondOfDay(ts))

-----------------------------------------------------------------------------
(* pandas helpers used by the tables.                                      *)

\* row[col] = v
SetCol(row, col, v) ==
    DictV([i \in 1..Len(row.pairs) |->
              IF row.pairs[i].key = StrV(col)
              THEN [key |-> StrV(col), val |-> v] ELSE row.pairs[i]])

\* pd.DataFrame(rows): each row under its index label 0, 1, ..., which the
\* row keeps when the frame is sorted or rows are dropped
DataFrame(rows) == [i \in 1..Len(rows) |-> [index |-> i - 1, row |-> rows[i]]]

\* a frame as the value of a name of the script
FrameV(df) == [t |-> "frame", rows |-> df]

\* df[col] = df[col].astype(str) for every col of cols
AsTypeStr(df, cols) ==
    [i \in 1..Len(df) |->
        [index |-> df[i].index,
         row   |-> DictV([j \in 1..Len(df[i].row.pairs) |->
                      IF \E c \in cols : df[i].row.pairs[j].key = StrV(c)
                      THEN [key |-> df[i].row.pairs[j].key,
                            val |-> PyStr(df[i].row.pairs[j].val)]
                      ELSE df[i].row.pairs[j]])]]

\* the cells of a row that drop_duplicates compares
SubsetKey(row, subset) == [c \in 1..Len(subset) |-> Get(row, subset[c])]

\* the rows at the positions of keep, in their order
RECURSIVE RowsAt(_, _, _)
RowsAt(rows, keep, i) ==
    IF i > Len(rows) THEN << >>
    ELSE (IF i \in keep THEN << rows[i] >> ELSE << >>) \o RowsAt(rows, keep, i + 1)

\* keep="last": the last row of each group of duplicates stays
drop_duplicates_keep_last(df, subset) ==
    RowsAt(df,
           {i \in 1..Len(df) :
               \A j \in (i + 1)..Len(df) :
                   SubsetKey(df[j].row, subset) # SubsetKey(df[i].row, subset)},
           1)

\* df.drop_duplicates(subset=...): keep="first"
drop_duplicates(df, subset) ==
    RowsAt(df,
           {i \in 1..Len(df) :
               \A j \in 1..(i - 1) :
                   SubsetKey(df[j].row, subset) # SubsetKey(df[i].row, subset)},
           1)

-----------------------------------------------------------------------------
(* Separate events by type, lines 40-44.                                   *)

\* e["type"]
TypeOf(e) == Item(e, StrV("type"))

\* e["type"] == name
IsType(e, name) == TypeOf(e) = StrV(name)

\* the last event of the type instead of the first
first_of_type_last(events, name) ==
    IF \E i \in 1..Len(events) : IsType(events[i], name)
    THEN events[CHOOSE i \in 1..Len(events) :
                    /\ IsType(events[i], name)
                    /\ \A j \in (i + 1)..Len(events) : ~IsType(events[j], name)]
    ELSE NoneV

\* next((e for e in data if e["type"] == name), None)
first_of_type(events, name) ==
    IF \E i \in 1..Len(events) : IsType(events[i], name)
    THEN events[CHOOSE i \in 1..Len(events) :
                    /\ IsType(events[i], name)
                    /\ \A j \in 1..(i - 1) : ~IsType(events[j], name)]
    ELSE NoneV

-----------------------------------------------------------------------------
(* Passenger & Trip Info, lines 46-76.                                     *)

passenger_info_of(body, pks, dps) ==
    DictV(<< KV("Passenger ID", safe_get(body, Path2("passenger", "id"), NoneV)),
             KV("PIN", safe_get(body, Path1("pin"), NoneV)),
             KV("Seats", safe_get(body, Path1("seat_requirement"), NoneV)),
             KV("Pre-booking", safe_get(body, Path1("pre_booking"), NoneV)),
             KV("Service Group", safe_get(body, Path1("service_group_code"), NoneV)),
             KV("Number of Pickups", IntV(PyLen(pks))),
             KV("Number of Drops", IntV(PyLen(dps))) >>)

-----------------------------------------------------------------------------
(* Ride & Trip Overview, lines 78-109.                                     *)

\* the loop of lines 89-92 over business_metadata
ride_id_of(business_metadata) ==
    LET ms == business_metadata.items
        hit == {i \in 1..Len(ms) : Get(ms[i], "key") = StrV("ride_id")}
    IN IF hit = {} THEN NoneV
       ELSE Get(ms[CHOOSE i \in hit : \A j \in hit : i <= j], "value")

ride_trip_row(e) ==
    DictV(<< KV("Ride ID",
                ride_id_of(safe_get(e, Path2("body", "business_metadata"), EmptyList))),
             KV("Trip ID", safe_get(e, Path2("body", "trip_id"), NoneV)),
             KV("Event", Get(e, "type")),
             KV("Driver ID", safe_get(e, Path2("body", "driver_id"), NoneV)) >>)

\* "trip_id" in body instead of trip_id is not None
has_trip_id_present(e) == HasKey(GetOr(e, "body", EmptyDict), StrV("trip_id"))

\* trip_id is not None, line 84
has_trip_id(e) == safe_get(e, Path2("body", "trip_id"), NoneV) # NoneV

\* the loop of lines 82-98
RECURSIVE ride_trip_rows_of(_)
ride_trip_rows_of(events) ==
    IF events = << >> THEN << >>
    ELSE (IF has_trip_id(Head(events)) THEN << ride_trip_row(Head(events)) >> ELSE << >>)
         \o ride_trip_rows_of(Tail(events))

RideTripSubset == << "Ride ID", "Trip ID", "Event", "Driver ID" >>

\* lines 101-106
df_ride_trip_of(rows) ==
    drop_duplicates(AsTypeStr(DataFrame(rows), {"Driver ID", "Ride ID"}), RideTripSubset)

-----------------------------------------------------------------------------
(* Estimated Trip Details, lines 111-139.                                  *)

fare_info_of(f, dps) ==
    LET est == safe_get(f, Path2("estimated_fare", "fare_info"), EmptyDict) IN
    DictV(<< KV("Currency", GetOr(f, "currency_code", StrV(""))),
             KV("Total Distance (km)", GetOr(f, "distance", StrV(""))),
             KV("Total Duration (sec)", GetOr(f, "duration", StrV(""))),
             KV("Number of Stops", IntV(PyLen(dps))),
             KV("Base Fare", Get(est, "min_fare")),
             KV("Distance Fare", safe_get(est, Path2("fare_breakdown", "distance_fare"), NoneV)),
             KV("Duration Fare", safe_get(est, Path2("fare_breakdown", "duration_fare"), NoneV)),
             KV("Waiting Fare", Get(est, "waiting_fare")),
             KV("Free Waiting Time", Get(est, "free_waiting_time")),
             KV("Extra Ride Fare", Get(est, "extra_ride_fare")),
             KV("Above KM Fare", Get(est, "above_km_fare")),
             KV("Is Upfront", Get(f, "is_upfront")),
             KV("Ride Hour Enabled", Get(f, "ride_hour_enabled")) >>)

-----------------------------------------------------------------------------
(* Fare Price File, lines 141-174.                                         *)

PriceFileKeys == << "additional_charge", "distance_fare", "waiting_fare" >>

table_columns(key) ==
    CASE key = "additional_charge" -> << "id", "name", "amount", "type" >>
      [] key = "distance_fare"     -> << "base_fare", "distance", "km_fare" >>
      [] key = "waiting_fare"      -> << "end_time", "fare" >>

\* lines 156-159: the columns of table_columns[key] some item has, and each
\* item's cells under them (a cell the item lacks is empty)
price_table(key, items) ==
    LET cols == SelectSeq(table_columns(key),
                          LAMBDA c : \E i \in 1..Len(items.items) :
                                         HasKey(items.items[i], StrV(c)))
    IN [title |-> key,
        rows  |-> [i \in 1..Len(items.items) |->
                      DictV([c \in 1..Len(cols) |->
                                KV(cols[c], Get(items.items[i], cols[c]))])]]

\* lines 152-174: a table for a key with items, an info line otherwise
price_tables_of(price_file) ==
    [k \in 1..Len(PriceFileKeys) |->
        LET items == GetOr(price_file, PriceFileKeys[k], EmptyList) IN
        IF Truthy(items) THEN price_table(PriceFileKeys[k], items)
        ELSE [title |-> PriceFileKeys[k], rows |-> << >>]]

-----------------------------------------------------------------------------
(* Actual Trip Details, lines 176-202.                                     *)

\* the record of lines 186-201 around its Driver ID and Currency
actual_record(completed, ended, driver_id, currency) ==
    LET meter_details == safe_get(ended, Path2("meter_details", "travel_details"), EmptyDict)
        travel_info   == safe_get(ended, Path1("travel_info"), EmptyDict)
        trip_info     == safe_get(completed, Path1("trip"), EmptyDict)
    IN
    DictV(<< KV("Driver ID", driver_id),
             KV("Passenger ID", Get(trip_info, "passenger_id")),
             KV("Currency", currency),
             KV("Pickup Address", safe_get(trip_info, Path2("actual_pickup", "address"), NoneV)),
             KV("Drop Address", safe_get(trip_info, Path2("actual_drop", "address"), NoneV)),
             KV("Distance Travelled (m)", Get(meter_details, "distance_travelled")),
             KV("Waiting Time (sec)", Get(meter_details, "waiting_time")),
             KV("Total Trip Cost", Get(trip_info, "trip_cost")),
             KV("Promotion Code", safe_get(trip_info, Path1("promo_code"), NoneV)),
             KV("Tip", Get(trip_info, "total_tip")),
             KV("Payment Method",
                safe_get(trip_info, << StrV("payment"), IntV(0), StrV("method") >>, NoneV)),
             KV("Actual Duration (sec)", Get(travel_info, "actual_duration")),
             KV("Estimated Distance", Get(travel_info, "estimated_distance")),
             KV("Lost Mileage", Get(travel_info, "estimated_lost_mileage")) >>)

\* the trip_completed body asked first, the trip_ended body as the fallback
actual_of_completed_first(completed, ended) ==
    LET trip_info == safe_get(completed, Path1("trip"), EmptyDict) IN
    actual_record(completed, ended,
                  GetOr(trip_info, "driver_id", Get(ended, "driver_id")),
                  GetOr(trip_info, "currency_code", Get(ended, "currency_code")))

\* lines 179-201
actual_of(completed, ended) ==
    LET trip_info == safe_get(completed, Path1("trip"), EmptyDict) IN
    actual_record(completed, ended,
                  GetOr(ended, "driver_id", Get(trip_info, "driver_id")),
                  GetOr(ended, "currency_code", Get(trip_info, "currency_code")))

-----------------------------------------------------------------------------
(* Trip Bidding Details, lines 204-264.                                    *)

\* lines 214-232: the row of driver entry d of event e
bidding_row(e, d) ==
    DictV(<< KV("Trip ID", Get(GetOr(e, "body", EmptyDict), "trip_id")),
             KV("Driver ID", Get(d, "driver_id")),
             KV("Bidding?", GetOr(d, "bidding", BoolV(FALSE))),
             KV("Bid Amount", NoneV),
             KV("Assigned?", BoolV(IsType(e, "driver_assigned"))),
             KV("Winner?", BoolV(FALSE)),
             KV("Selection Type", Get(d, "selection_type")),
             KV("ETA (s)", Get(d, "eta")),
             KV("Distance (m)", Get(d, "distance")) >>)

\* the first loop, lines 208-232
RECURSIVE bidding_rows_of(_)
bidding_rows_of(events) ==
    IF events = << >> THEN << >>
    ELSE LET e       == Head(events)
             drivers == GetOr(GetOr(e, "body", EmptyDict), "drivers", EmptyList).items
         IN (IF IsType(e, "driver_selected") \/ IsType(e, "driver_assigned")
             THEN [i \in 1..Len(drivers) |-> bidding_row(e, drivers[i])]
             ELSE << >>)
            \o bidding_rows_of(Tail(events))

\* the row found by its driver alone, whatever its trip
mark_winner_any_trip(rows, e) ==
    LET body == GetOr(e, "body", EmptyDict) IN
    [i \in 1..Len(rows) |->
        IF Get(rows[i], "Driver ID") = Get(body, "driver_id")
        THEN SetCol(SetCol(rows[i], "Bid Amount", Get(body, "bid_amount")),
                    "Winner?", BoolV(TRUE))
        ELSE rows[i]]

\* lines 242-245 for one trip_accepted event
mark_winner(rows, e) ==
    LET body == GetOr(e, "body", EmptyDict) IN
    [i \in 1..Len(rows) |->
        IF /\ Get(rows[i], "Trip ID") = Get(body, "trip_id")
           /\ Get(rows[i], "Driver ID") = Get(body, "driver_id")
        THEN SetCol(SetCol(rows[i], "Bid Amount", Get(body, "bid_amount")),
                    "Winner?", BoolV(TRUE))
        ELSE rows[i]]

\* the second loop, lines 235-245
RECURSIVE fill_winners(_, _)
fill_winners(rows, events) ==
    IF events = << >> THEN rows
    ELSE fill_winners(IF IsType(Head(events), "trip_accepted")
                      THEN mark_winner(rows, Head(events)) ELSE rows,
                      Tail(events))

BiddingColumns ==
    {"Trip ID", "Driver ID", "Bidding?", "Bid Amount", "Assigned?", "Winner?",
     "Selection Type", "ETA (s)", "Distance (m)"}

BiddingSubset == << "Trip ID", "Driver ID", "Assigned?", "Winner?" >>

\* lines 248-252
df_bidding_of(rows) ==
    drop_duplicates(AsTypeStr(DataFrame(rows), BiddingColumns), BiddingSubset)

-----------------------------------------------------------------------------
(* Complete Events Timeline, lines 266-309.                                *)

\* lines 271-295
timeline_row(e) ==
    LET body   == GetOr(e, "body", EmptyDict)
        driver == HasKey(body, StrV("driver_id")) \/ HasKey(body, StrV("drivers"))
                  \/ HasKey(body, StrV("drivers_status"))
    IN DictV(<< KV("Timestamp", format_timestamp(Get(e, "created_at"))),
                KV("Event Type", Get(e, "type")),
                KV("Category", StrV(IF driver THEN "Driver Event" ELSE "Trip Event")),
                KV("Driver ID", IF driver THEN safe_get(body, Path1("driver_id"), StrV("-"))
                                ELSE StrV("-")),
                KV("Distance", safe_get(body, Path1("distance"), StrV("-"))),
                KV("ETA", safe_get(body, Path1("eta"), StrV("-"))),
                KV("Location", safe_get(body, Path2("location", "address"), StrV("-"))),
                KV("Extra Info", body) >>)

timeline_data_of(events) == [i \in 1..Len(events) |-> timeline_row(events[i])]

\* a < b on two tuples of numbers, as on two zero-padded strings
RECURSIVE LexLess(_, _)
LexLess(a, b) ==
    IF a = << >> \/ b = << >> THEN a = << >> /\ b # << >>
    ELSE Head(a) < Head(b) \/ (Head(a) = Head(b) /\ LexLess(Tail(a), Tail(b)))

\* a < b on two Timestamp cells of one type
CellLess(a, b) ==
    IF a.t = "datestr" THEN LexLess(a.fields, b.fields)
    ELSE LexLess(<< a.kilo, a.unit >>, << b.kilo, b.unit >>)

\* sort_values compares cells of two types: TypeError
SortRaises(rows) ==
    \E i, j \in 1..Len(rows) :
        /\ Get(rows[i], "Timestamp") # NoneV
        /\ Get(rows[j], "Timestamp") # NoneV
        /\ Get(rows[i], "Timestamp").t # Get(rows[j], "Timestamp").t

\* p orders the rows by Timestamp, ascending, the empty cells last
OrdersByTimestamp(rows, p) ==
    \A i, j \in 1..Len(rows) :
        i < j =>
            LET a == Get(rows[p[i]], "Timestamp")
                b == Get(rows[p[j]], "Timestamp")
            IN /\ a = NoneV => b = NoneV
               /\ (a # NoneV /\ b # NoneV) => ~CellLess(b, a)

\* the orders df.sort_values("Timestamp") may leave the rows in: the default
\* kind is quicksort, which does not promise to keep equal cells in input order
SortOrders(rows) ==
    {p \in Permutations(1..Len(rows)) : OrdersByTimestamp(rows, p)}

TimelineSubset == << "Timestamp", "Event Type", "Category", "Driver ID" >>

\* lines 299-303 on rows already put in the order p
df_timeline_of(rows, p) ==
    drop_duplicates(AsTypeStr([i \in 1..Len(rows) |-> DataFrame(rows)[p[i]]], {"Driver ID"}),
                    TimelineSubset)

-----------------------------------------------------------------------------
(* Trip Map, lines 311-351.                                                *)

LatLng(loc) == ListV(<< Get(loc, "lat"), Get(loc, "lng") >>)

\* lines 313-317
route_points_of(pk, dps) ==
    (IF Truthy(pk) THEN << LatLng(pk) >> ELSE << >>)
    \o [i \in 1..Len(dps.items) |-> LatLng(dps.items[i])]

\* lines 320-324
pickup_marker(pk) ==
    DictV(<< KV("location", LatLng(pk)), KV("popup", Get(pk, "address")),
             KV("icon", StrV("play")) >>)

\* lines 327-351: a numbered marker for each drop with a lat and a lng
RECURSIVE drop_markers(_, _)
drop_markers(dps, i) ==
    IF i > Len(dps) THEN << >>
    ELSE (IF Truthy(Get(dps[i], "lat")) /\ Truthy(Get(dps[i], "lng"))
          THEN << DictV(<< KV("location", LatLng(dps[i])),
                           KV("popup", GetOr(dps[i], "address", StrV(""))),
                           KV("icon", IntV(i)) >>) >>
          ELSE << >>)
         \o drop_markers(dps, i + 1)

\* folium is handed a location that holds None
BadLocation(loc) == \E i \in 1..Len(loc.items) : loc.items[i] = NoneV

-----------------------------------------------------------------------------
(* The uploaded event lists the model runs the script on.                  *)

Event(type, created_at, body) ==
    DictV(<< KV("type", StrV(type)), KV("created_at", created_at), KV("body", DictV(body)) >>)

\* created_at in milliseconds, k seconds after 2023-11-14 22:13:20 UTC
At(k) == NumV(1700000000 + k, 0)

Place(lat, lng, address) ==
    DictV(<< KV("lat", IntV(lat)), KV("lng", IntV(lng)), KV("address", StrV(address)) >>)

\* events of the trip's life cycle: with and without the fields the sections read
LifecycleEvents ==
    { Event("trip_created", At(1),
            << KV("passenger", DictV(<< KV("id", IntV(11)) >>)),
               KV("pin", IntV(1234)),
               KV("seat_requirement", IntV(2)),
               KV("pickup", DictV(<< KV("location", ListV(<< Place(6, 79, "P") >>)) >>)),
               KV("drop", DictV(<< KV("location",
                     ListV(<< Place(7, 80, "D1"),
                              DictV(<< KV("lng", IntV(81)), KV("address", StrV("D2")) >>) >>)) >>)) >>),
      Event("trip_created", At(2), << KV("passenger", DictV(<< KV("id", IntV(12)) >>)) >>),
      Event("trip_fare_updated", At(3),
            << KV("fare_details", ListV(<<
                  DictV(<< KV("currency_code", StrV("LKR")),
                           KV("distance", IntV(12)),
                           KV("estimated_fare", DictV(<< KV("fare_info",
                                 DictV(<< KV("min_fare", IntV(100)),
                                          KV("fare_breakdown",
                                             DictV(<< KV("distance_fare", IntV(50)) >>)) >>)) >>)),
                           KV("price_file", DictV(<< KV("distance_fare",
                                 ListV(<< DictV(<< KV("base_fare", IntV(100)),
                                                   KV("km_fare", IntV(50)) >>) >>)) >>)) >>) >>)) >>),
      Event("trip_fare_updated", At(4), << >>),
      Event("trip_completed", At(5),
            << KV("trip", DictV(<< KV("driver_id", IntV(7)),
                                   KV("passenger_id", IntV(11)),
                                   KV("currency_code", StrV("LKR")),
                                   KV("trip_cost", IntV(500)),
                                   KV("payment", ListV(<< DictV(<< KV("method", StrV("cash")) >>) >>)) >>)) >>),
      Event("trip_completed", At(6), << >>),
      Event("trip_ended", At(7),
            << KV("driver_id", IntV(9)),
               KV("currency_code", StrV("USD")),
               KV("meter_details", DictV(<< KV("travel_details",
                     DictV(<< KV("distance_travelled", IntV(1000)) >>)) >>)),
               KV("travel_info", DictV(<< KV("actual_duration", IntV(60)) >>)) >>),
      Event("trip_ended", At(8), << KV("driver_id", NoneV) >>),
      Event("trip_ended", At(9), << >>) }

Driver7 ==
    DictV(<< KV("driver_id", IntV(7)), KV("bidding", BoolV(TRUE)), KV("eta", IntV(120)),
             KV("distance", IntV(500)), KV("selection_type", StrV("auto")) >>)
Driver8 == DictV(<< KV("driver_id", IntV(8)) >>)

\* with a trip_id when tid = 1, without when tid = 0
TripId(tid) == IF tid = 0 THEN << >> ELSE << KV("trip_id", IntV(tid)) >>

\* driver selection, assignment and acceptance, with and without a trip_id
BiddingEvents ==
    { Event("driver_selected", At(10 + tid),
            TripId(tid) \o << KV("drivers", ListV(<< Driver7, Driver8 >>)) >>) : tid \in 0..1 }
    \cup { Event("driver_assigned", At(12 + tid),
                 TripId(tid) \o << KV("drivers", ListV(<< Driver7, Driver8 >>)) >>) : tid \in 0..1 }
    \cup { Event("driver_selected", At(14), TripId(1)) }
    \cup { Event("trip_accepted", At(14 + b),
                 TripId(1) \o << KV("driver_id", IntV(7)), KV("bid_amount", IntV(100 * b)) >>) :
              b \in 1..2 }
    \cup { Event("trip_accepted", At(17), TripId(1) \o << KV("driver_id", IntV(8)) >>),
           Event("trip_accepted", At(18),
                 << KV("driver_id", IntV(7)), KV("bid_amount", IntV(300)) >>) }

\* created_at in milliseconds (two instants of one second, one of the next)
\* and in seconds
Instants == { NumV(1700000000, 900), NumV(1700000000, 100), NumV(1700000001, 0),
              NumV(1700000, 1) }

\* events that differ in their instant, type and driver
TimelineEvents ==
    { Event("trip_started", ts, << >>) : ts \in Instants }
    \cup { Event("driver_arrived", ts, << KV("driver_id", IntV(7)) >>) : ts \in Instants }
    \cup { Event("driver_arrived", NumV(1700000000, 900), << KV("driver_id", StrV("7")) >>) }

RideMeta(id) == DictV(<< KV("key", StrV("ride_id")), KV("value", IntV(id)) >>)

\* no business_metadata, one ride_id entry, or two behind another entry
Metadata(m) ==
    CASE m = 0 -> << >>
      [] m = 1 -> << KV("business_metadata", ListV(<< RideMeta(5) >>)) >>
      [] m = 2 -> << KV("business_metadata",
                        ListV(<< DictV(<< KV("key", StrV("vehicle")), KV("value", IntV(3)) >>),
                                 RideMeta(5), RideMeta(6) >>)) >>

\* events with and without a trip_id, a driver_id and business_metadata
OverviewEvents ==
    { Event("driver_arrived", At(20 + m),
            TripId(1) \o << KV("driver_id", IntV(7)) >> \o Metadata(m)) : m \in 0..2 }
    \cup { Event("driver_arrived", At(20 + m),
                 TripId(1) \o << KV("driver_id", StrV("7")) >> \o Metadata(m)) : m \in 0..2 }
    \cup { Event("driver_arrived", At(26), TripId(1)),
           Event("driver_arrived", At(27), << KV("trip_id", NoneV), KV("driver_id", IntV(7)) >>),
           Event("driver_arrived", At(28), << KV("driver_id", IntV(7)) >>) }

\* the lists of at most MaxEvents events of S
Lists(S) == UNION { [1..n -> S] : n \in 0..MaxEvents }

Inputs ==
    Lists(LifecycleEvents) \cup Lists(BiddingEvents) \cup Lists(TimelineEvents)
    \cup Lists(OverviewEvents)

-----------------------------------------------------------------------------
(* One run of the script over the uploaded list, lines 36-367.             *)

IdleSafeGet ==
    /\ sg_pc = "idle"
    /\ sg_d = NoneV
    /\ sg_keys = << >>
    /\ sg_default = NoneV
    /\ sg_result = Unbound

\* nothing is assigned or shown before the first section
FreshRun ==
    /\ trip_created_event = Unbound /\ trip_fare_event = Unbound
    /\ trip_completed_event = Unbound /\ trip_ended_event = Unbound
    /\ pickups = Unbound /\ drops = Unbound /\ pickup = Unbound /\ drop = Unbound
    /\ passenger_info = Unbound
    /\ ride_trip_rows = Unbound /\ df_ride_trip = Unbound
    /\ estimated_fares = Unbound /\ price_tables = Unbound /\ actual = Unbound
    /\ bidding_rows = Unbound /\ df_bidding = Unbound
    /\ timeline_data = Unbound /\ df_timeline = Unbound
    /\ route_points = Unbound /\ markers = Unbound /\ osrm = "none"
    /\ warning = FALSE /\ rendered = FALSE /\ error = NoneV

\* data = json.load(uploaded_file), line 38
Init ==
    /\ data \in Inputs
    /\ pc = "separate"
    /\ FreshRun
    /\ IdleSafeGet

\* lines 40-44
SeparateEvents ==
    /\ pc = "separate"
    /\ trip_created_event' = first_of_type(data, "trip_created")
    /\ trip_fare_event' = first_of_type(data, "trip_fare_updated")
    /\ trip_completed_event' = first_of_type(data, "trip_completed")
    /\ trip_ended_event' = first_of_type(data, "trip_ended")
    /\ pc' = "passenger"
    /\ UNCHANGED << data, pickups, drops, pickup, drop, passenger_info, ride_trip_rows, 
                    df_ride_trip, estimated_fares, price_tables, actual, bidding_rows, 
                    df_bidding, timeline_data, df_timeline, route_points, markers, 
                    osrm, warning, rendered, error, sgVars >>

PassengerInfo_defaults ==
    /\ pc = "passenger"
    /\ LET body == IF Truthy(trip_created_event)
                   THEN Item(trip_created_event, StrV("body")) ELSE EmptyDict
           pks  == safe_get(body, Path2("pickup", "location"), EmptyList)
           dps  == safe_get(body, Path2("drop", "location"), EmptyList)
       IN /\ pickups' = pks
          /\ drops' = dps
          /\ passenger_info' = IF Truthy(trip_created_event)
                               THEN passenger_info_of(body, pks, dps) ELSE passenger_info
          /\ pickup' = IF Truthy(pks) THEN ListIndex(pks.items, 0) ELSE EmptyDict
          /\ drop' = IF Truthy(dps) THEN ListIndex(dps.items, -1) ELSE EmptyDict
    /\ pc' = "overview"
    /\ UNCHANGED << data, trip_created_event, trip_fare_event, trip_completed_event, 
                    trip_ended_event, ride_trip_rows, df_ride_trip, estimated_fares, 
                    price_tables, actual, bidding_rows, df_bidding, timeline_data, 
                    df_timeline, route_points, markers, osrm, warning, rendered, error, 
                    sgVars >>

\* lines 46-76: pickups, drops, pickup and drop are assigned only when a
\* trip_created event was found
PassengerInfo ==
    /\ pc = "passenger"
    /\ IF Truthy(trip_created_event)
       THEN LET body == Item(trip_created_event, StrV("body"))
                pks  == safe_get(body, Path2("pickup", "location"), EmptyList)
                dps  == safe_get(body, Path2("drop", "location"), EmptyList)
            IN /\ pickups' = pks
               /\ drops' = dps
               /\ passenger_info' = passenger_info_of(body, pks, dps)
               /\ pickup' = IF Truthy(pks) THEN ListIndex(pks.items, 0) ELSE EmptyDict
               /\ drop' = IF Truthy(dps) THEN ListIndex(dps.items, -1) ELSE EmptyDict
       ELSE UNCHANGED << pickups, drops, pickup, drop, passenger_info >>
    /\ pc' = "overview"
    /\ UNCHANGED << data, trip_created_event, trip_fare_event, trip_completed_event, 
                    trip_ended_event, ride_trip_rows, df_ride_trip, estimated_fares, 
                    price_tables, actual, bidding_rows, df_bidding, timeline_data, 
                    df_timeline, route_points, markers, osrm, warning, rendered, error, 
                    sgVars >>

\* lines 78-109
RideTripOverview ==
    /\ pc = "overview"
    /\ ride_trip_rows' = ListV(ride_trip_rows_of(data))
    /\ df_ride_trip' = IF Truthy(ride_trip_rows')
                       THEN FrameV(df_ride_trip_of(ride_trip_rows'.items))
                       ELSE df_ride_trip
    /\ pc' = "estimated"
    /\ UNCHANGED << data, trip_created_event, trip_fare_event, trip_completed_event, 
                    trip_ended_event, pickups, drops, pickup, drop, passenger_info, 
                    estimated_fares, price_tables, actual, bidding_rows, df_bidding, 
                    timeline_data, df_timeline, route_points, markers, osrm, warning, 
                    rendered, error, sgVars >>

\* lines 111-139: len(drops) on line 124 raises NameError when drops was never
\* assigned, and the except of line 366 ends the run
EstimatedTripDetails ==
    /\ pc = "estimated"
    /\ IF Truthy(trip_fare_event)
       THEN LET fare_list == safe_get(trip_fare_event, Path2("body", "fare_details"), EmptyList) IN
            IF fare_list.items # << >> /\ drops = Unbound
            THEN /\ error' = StrV("NameError: drops")
                 /\ pc' = "done"
                 /\ UNCHANGED estimated_fares
            ELSE /\ estimated_fares' = ListV([i \in 1..Len(fare_list.items) |->
                                                 fare_info_of(fare_list.items[i], drops)])
                 /\ pc' = "price_file"
                 /\ UNCHANGED error
       ELSE /\ pc' = "price_file"
            /\ UNCHANGED << estimated_fares, error >>
    /\ UNCHANGED << data, trip_created_event, trip_fare_event, trip_completed_event, 
                    trip_ended_event, pickups, drops, pickup, drop, passenger_info, 
                    ride_trip_rows, df_ride_trip, price_tables, actual, bidding_rows, 
                    df_bidding, timeline_data, df_timeline, route_points, markers, 
                    osrm, warning, rendered, sgVars >>

\* lines 141-174
FarePriceFile ==
    /\ pc = "price_file"
    /\ price_tables' =
          IF Truthy(trip_fare_event)
          THEN ListV(price_tables_of(
                   safe_get(trip_fare_event,
                            << StrV("body"), StrV("fare_details"), IntV(0), StrV("price_file") >>,
                            EmptyDict)))
          ELSE price_tables
    /\ pc' = "actual"
    /\ UNCHANGED << data, trip_created_event, trip_fare_event, trip_completed_event, 
                    trip_ended_event, pickups, drops, pickup, drop, passenger_info, 
                    ride_trip_rows, df_ride_trip, estimated_fares, actual, 
                    bidding_rows, df_bidding, timeline_data, df_timeline, route_points, 
                    markers, osrm, warning, rendered, error, sgVars >>

\* lines 176-202
ActualTripDetails ==
    /\ pc = "actual"
    /\ actual' =
          IF Truthy(trip_completed_event) \/ Truthy(trip_ended_event)
          THEN actual_of(IF Truthy(trip_completed_event)
                         THEN Item(trip_completed_event, StrV("body")) ELSE EmptyDict,
                         IF Truthy(trip_ended_event)
                         THEN Item(trip_ended_event, StrV("body")) ELSE EmptyDict)
          ELSE actual
    /\ pc' = "bidding"
    /\ UNCHANGED << data, trip_created_event, trip_fare_event, trip_completed_event, 
                    trip_ended_event, pickups, drops, pickup, drop, passenger_info, 
                    ride_trip_rows, df_ride_trip, estimated_fares, price_tables, 
                    bidding_rows, df_bidding, timeline_data, df_timeline, route_points, 
                    markers, osrm, warning, rendered, error, sgVars >>

\* lines 204-264
TripBiddingDetails ==
    /\ pc = "bidding"
    /\ bidding_rows' = ListV(fill_winners(bidding_rows_of(data), data))
    /\ df_bidding' = IF Truthy(bidding_rows')
                     THEN FrameV(df_bidding_of(bidding_rows'.items))
                     ELSE df_bidding
    /\ pc' = "timeline"
    /\ UNCHANGED << data, trip_created_event, trip_fare_event, trip_completed_event, 
                    trip_ended_event, pickups, drops, pickup, drop, passenger_info, 
                    ride_trip_rows, df_ride_trip, estimated_fares, price_tables, 
                    actual, timeline_data, df_timeline, route_points, markers, osrm, 
                    warning, rendered, error, sgVars >>

\* lines 266-309: the table is sorted and shown when it is not empty; a sort
\* that compares a formatted cell with an unformatted one raises TypeError
EventsTimeline ==
    /\ pc = "timeline"
    /\ timeline_data' = ListV(timeline_data_of(data))
    /\ IF ~Truthy(timeline_data')
       THEN /\ pc' = "map"
            /\ UNCHANGED << df_timeline, error >>
       ELSE IF SortRaises(timeline_data'.items)
       THEN /\ error' = StrV("TypeError: sort_values")
            /\ pc' = "done"
            /\ UNCHANGED df_timeline
       ELSE /\ \E p \in SortOrders(timeline_data'.items) :
                   df_timeline' = FrameV(df_timeline_of(timeline_data'.items, p))
            /\ pc' = "map"
            /\ UNCHANGED error
    /\ UNCHANGED << data, trip_created_event, trip_fare_event, trip_completed_event, 
                    trip_ended_event, pickups, drops, pickup, drop, passenger_info, 
                    ride_trip_rows, df_ride_trip, estimated_fares, price_tables, 
                    actual, bidding_rows, df_bidding, route_points, markers, osrm, 
                    warning, rendered, sgVars >>

\* lines 311-351: pickup on line 314 raises NameError when it was never
\* assigned; what folium does with a location that holds None depends on its
\* version (it validates and raises ValueError, or takes it as it is)
TripMap ==
    /\ pc = "map"
    /\ IF pickup = Unbound
       THEN /\ error' = StrV("NameError: pickup")
            /\ pc' = "done"
            /\ UNCHANGED << route_points, markers, drops >>
       ELSE /\ route_points' = ListV(route_points_of(pickup, drops))
            /\ \E accepts \in BOOLEAN :
                  IF BadLocation(LatLng(pickup)) /\ ~accepts
                  THEN /\ error' = StrV("ValueError: location")
                       /\ pc' = "done"
                       /\ UNCHANGED << markers, drops >>
                  ELSE /\ drops' = safe_get(trip_created_event,
                                            << StrV("body"), StrV("drop"), StrV("location") >>,
                                            EmptyList)
                       /\ markers' = ListV(<< pickup_marker(pickup) >>
                                           \o drop_markers(drops'.items, 1))
                       /\ pc' = "osrm"
                       /\ UNCHANGED error
    /\ UNCHANGED << data, trip_created_event, trip_fare_event, trip_completed_event, 
                    trip_ended_event, pickups, pickup, drop, passenger_info, 
                    ride_trip_rows, df_ride_trip, estimated_fares, price_tables, 
                    actual, bidding_rows, df_bidding, timeline_data, df_timeline, osrm, 
                    warning, rendered, sgVars >>

Polyline == DictV(<< KV("tooltip", StrV("Planned Route")) >>)

\* what the request to the routing service comes to ("none": not made)
OsrmOutcomes == {"route", "raises", "no_route"}

OSRMRoute_propagates ==
    /\ pc = "osrm"
    /\ \E r \in OsrmOutcomes :
          /\ osrm' = r
          /\ warning' = FALSE
          /\ markers' = IF r = "route" THEN ListV(Append(markers.items, Polyline)) ELSE markers
          /\ rendered' = (r = "route")
          /\ error' = IF r = "route" THEN error ELSE StrV("Exception: OSRM")
    /\ pc' = "done"
    /\ UNCHANGED << data, trip_created_event, trip_fare_event, trip_completed_event, 
                    trip_ended_event, pickups, drops, pickup, drop, passenger_info, 
                    ride_trip_rows, df_ride_trip, estimated_fares, price_tables, 
                    actual, bidding_rows, df_bidding, timeline_data, df_timeline, 
                    route_points, sgVars >>

\* lines 353-364: anything raised between the try and the except of lines
\* 354-362 becomes a warning, and st_folium shows the map either way
OSRMRoute ==
    /\ pc = "osrm"
    /\ \E r \in OsrmOutcomes :
          /\ osrm' = r
          /\ warning' = (r # "route")
          /\ markers' = IF r = "route" THEN ListV(Append(markers.items, Polyline)) ELSE markers
    /\ rendered' = TRUE
    /\ pc' = "done"
    /\ UNCHANGED << data, trip_created_event, trip_fare_event, trip_completed_event, 
                    trip_ended_event, pickups, drops, pickup, drop, passenger_info, 
                    ride_trip_rows, df_ride_trip, estimated_fares, price_tables, 
                    actual, bidding_rows, df_bidding, timeline_data, df_timeline, 
                    route_points, error, sgVars >>

Next ==
    \/ SeparateEvents
    \/ PassengerInfo
    \/ RideTripOverview
    \/ EstimatedTripDetails
    \/ FarePriceFile
    \/ ActualTripDetails
    \/ TripBiddingDetails
    \/ EventsTimeline
    \/ TripMap
    \/ OSRMRoute

Spec == Init /\ [][Next]_vars

-----------------------------------------------------------------------------
(* One call of safe_get on a drawn structure, key path and default.        *)

\* the values a list or dict of the structure holds
SGInner == { IntV(1), ListV(<< IntV(2) >>), DictV(<< KV("b", IntV(3)) >>) }

\* lists of at most MaxList values, dicts over the keys "a" and 0, and two
\* values that are neither
SGStructures ==
    { ListV(xs) : xs \in UNION { [1..n -> SGInner] : n \in 0..MaxList } }
    \cup { DictV(a \o z) :
              a \in { << >> } \cup { << KV("a", v) >> : v \in SGInner },
              z \in { << >> } \cup { << KVi(0, v) >> : v \in SGInner } }
    \cup { IntV(1), NoneV }

\* string keys, and integer keys on both sides of every list's positions
SGKeys == { StrV("a"), StrV("b") } \cup { IntV(n) : n \in (-(MaxList + 1))..MaxList }

SGPaths == UNION { [1..n -> SGKeys] : n \in 0..MaxPath }

SGDefaults == { NoneV, IntV(9), DictV(<< KV("b", IntV(8)) >>) }

\* no run of the script
NoRun ==
    /\ data = << >>
    /\ pc = "idle"
    /\ FreshRun

InitSafeGet ==
    /\ sg_d \in SGStructures
    /\ sg_keys \in SGPaths
    /\ sg_default \in SGDefaults
    /\ sg_result = Unbound
    /\ sg_pc = "call"
    /\ NoRun

\* safe_get(d, *keys, default=default), lines 12-24
SafeGetCall ==
    /\ sg_pc = "call"
    /\ sg_result' = safe_get(sg_d, sg_keys, sg_default)
    /\ sg_pc' = "returned"
    /\ UNCHANGED << sg_d, sg_keys, sg_default, runVars >>

NextSafeGet == SafeGetCall

SpecSafeGet == InitSafeGet /\ [][NextSafeGet]_vars

-----------------------------------------------------------------------------
(* Claims about safe_get.                                                  *)

\* every step of the path is a key of the current dict or a position
\* 0 <= i < len of the current list
RECURSIVE Resolves(_, _)
Resolves(d, keys) ==
    IF keys = << >> THEN TRUE
    ELSE LET key == Head(keys) IN
         CASE d.t = "dict" -> HasKey(d, key) /\ Resolves(Item(d, key), Tail(keys))
           [] d.t = "list" -> /\ key.t = "int" /\ 0 <= key.n /\ key.n < Len(d.items)
                              /\ Resolves(d.items[key.n + 1], Tail(keys))
           [] OTHER        -> FALSE

\* d[k1][k2]... on a path that resolves
RECURSIVE Indexed(_, _)
Indexed(d, keys) ==
    IF keys = << >> THEN d
    ELSE Indexed(IF d.t = "dict" THEN Item(d, Head(keys)) ELSE d.items[Head(keys).n + 1],
                 Tail(keys))

\* C1: when some step of the key path cannot be resolved, safe_get returns
\* exactly the default and raises nothing.
C1_DefaultOnUnresolved ==
    (sg_pc = "returned" /\ ~Resolves(sg_d, sg_keys)) => sg_result = sg_default

\* C8: on a key path every step of which resolves, safe_get returns the value
\* plain nested indexing finds there, whatever the default; on the empty path
\* it returns d.
C8_AgreesWithIndexing ==
    (sg_pc = "returned" /\ Resolves(sg_d, sg_keys)) =>
        /\ sg_result = Indexed(sg_d, sg_keys)
        /\ sg_keys = << >> => sg_result = sg_d

\* C8 witness: a two-step path through a list into a dict resolved to a value
\* that is not the default
C8_Witness ==
    /\ sg_pc = "returned"
    /\ Len(sg_keys) = 2
    /\ Resolves(sg_d, sg_keys)
    /\ sg_d.t = "list"
    /\ sg_keys[1] = IntV(MaxList - 1)
    /\ sg_result = IntV(3)
    /\ sg_default = IntV(9)

-----------------------------------------------------------------------------
(* Claims about the run.                                                   *)

\* the positions of the uploaded list that hold an event of the type
OfType(name) == {i \in 1..Len(data) : IsType(data[i], name)}

NamedTypes == {"trip_created", "trip_fare_updated", "trip_completed", "trip_ended"}

\* the event the run holds for a named type
Selected(name) ==
    CASE name = "trip_created"      -> trip_created_event
      [] name = "trip_fare_updated" -> trip_fare_event
      [] name = "trip_completed"    -> trip_completed_event
      [] name = "trip_ended"        -> trip_ended_event

\* the run is past the section that ends by setting pc to one of after, and
\* was not ended before that section by one of the errors of before
Past(after, before) ==
    \/ pc \in after
    \/ pc = "done" /\ error \notin before

ErrDrops == StrV("NameError: drops")
ErrSort == StrV("TypeError: sort_values")

\* C2: when the request to the routing service raises or its response holds
\* no route, the run shows a warning and still shows the map with the pickup
\* and drop markers placed before, without the route line, and does not end
\* in the error outcome.
C2_RouteFailureIsWarning ==
    (pc = "done" /\ osrm \in {"raises", "no_route"}) =>
        /\ warning
        /\ rendered
        /\ error = NoneV
        /\ Len(markers.items) >= 1
        /\ Get(markers.items[1], "location") = LatLng(pickup)
        /\ \A k \in 1..Len(markers.items) : markers.items[k] # Polyline

\* C2 witness: the request raised, with a pickup and a drop marker on the map
C2_Witness ==
    /\ pc = "done"
    /\ osrm = "raises"
    /\ warning /\ rendered
    /\ Len(markers.items) = 2

\* the instant a created_at value denotes, in whole seconds and milliseconds
InstantOf(ts) ==
    IF AboveMsThreshold(ts) THEN << ts.kilo, ts.unit >>
    ELSE << 1000 * ts.kilo + ts.unit, 0 >>

\* the instant of the event behind the k-th row of the displayed timeline
RowInstant(k) == InstantOf(Get(data[df_timeline.rows[k].index + 1], "created_at"))

\* the sort left the rows with equal Timestamp cells in their input order
SortKeptInputOrder ==
    \A i, j \in 1..Len(df_timeline.rows) :
        (/\ i < j
         /\ Get(df_timeline.rows[i].row, "Timestamp") = Get(df_timeline.rows[j].row, "Timestamp"))
        => df_timeline.rows[i].index < df_timeline.rows[j].index

\* C3: the rows of the displayed timeline are in non-decreasing order of the
\* instants of their events (stated for the orders a sort that keeps equal
\* cells in input order leaves, so that a violation does not rest on the
\* sort's freedom).
C3_TimelineChronological ==
    (df_timeline # Unbound /\ SortKeptInputOrder) =>
        \A i, j \in 1..Len(df_timeline.rows) :
            i < j => ~LexLess(RowInstant(j), RowInstant(i))

\* the rows the timeline shows: none when the table is empty
ShownTimeline == IF df_timeline = Unbound THEN << >> ELSE df_timeline.rows

\* no event is in the input twice
EventsDistinct == \A i, j \in 1..Len(data) : i # j => data[i] # data[j]

\* C4: every event of the input has a row of its own in the displayed
\* timeline, so the timeline has as many rows as the input has events (stated
\* for inputs that hold no event twice, where no row is a copy of another).
C4_OneRowPerEvent ==
    (Past({"map", "osrm"}, {ErrDrops, ErrSort}) /\ EventsDistinct) =>
        Len(ShownTimeline) = Len(data)

\* what the de-duplication of line 303 compares, for the row of event e
EventKey(e) ==
    SubsetKey(AsTypeStr(DataFrame(<< timeline_row(e) >>), {"Driver ID"})[1].row,
              TimelineSubset)

ShownKey(k) == SubsetKey(ShownTimeline[k].row, TimelineSubset)

\* What lines 299-303 do keep: every event of the input has a row in the
\* displayed timeline with the event's Timestamp, Event Type, Category and
\* Driver ID (as text); every displayed row is the row of the event under its
\* index; no two displayed rows agree on all four; so the number of displayed
\* rows is the number of distinct such quadruples, at most the number of events.
Timeline_EveryEventRepresented ==
    Past({"map", "osrm"}, {ErrDrops, ErrSort}) =>
        /\ \A i \in 1..Len(data) :
              \E k \in 1..Len(ShownTimeline) : ShownKey(k) = EventKey(data[i])
        /\ \A k \in 1..Len(ShownTimeline) :
              /\ ShownTimeline[k].index \in 0..(Len(data) - 1)
              /\ ShownKey(k) = EventKey(data[ShownTimeline[k].index + 1])
              /\ Get(ShownTimeline[k].row, "Extra Info")
                    = GetOr(data[ShownTimeline[k].index + 1], "body", EmptyDict)
        /\ \A k, l \in 1..Len(ShownTimeline) : k # l => ShownKey(k) # ShownKey(l)
        /\ Len(ShownTimeline) = Cardinality({EventKey(data[i]) : i \in 1..Len(data)})
        /\ Len(ShownTimeline) <= Len(data)

\* C6: each of the four named events is the first event of the input whose
\* type is that name, or None when no event has the type, and then its
\* section shows nothing; an event of another type is never taken.
C6_FirstEventOfTypeSelected ==
    pc # "separate" =>
        /\ \A name \in NamedTypes :
              /\ OfType(name) = {} => Selected(name) = NoneV
              /\ OfType(name) # {} =>
                    \E i \in OfType(name) :
                        /\ \A j \in OfType(name) : i <= j
                        /\ Selected(name) = data[i]
              /\ Selected(name) # NoneV => IsType(Selected(name), name)
        /\ OfType("trip_created") = {} => passenger_info = Unbound
        /\ OfType("trip_fare_updated") = {} =>
              estimated_fares = Unbound /\ price_tables = Unbound
        /\ (OfType("trip_completed") = {} /\ OfType("trip_ended") = {}) => actual = Unbound

\* C6 witness: two trip_ended events with different bodies, the first one
\* taken, after an event of another type
C6_Witness ==
    /\ pc = "bidding"
    /\ Len(data) = 3
    /\ ~IsType(data[1], "trip_ended")
    /\ IsType(data[2], "trip_ended") /\ IsType(data[3], "trip_ended")
    /\ data[2] # data[3]
    /\ trip_ended_event = data[2]
    /\ actual # Unbound

\* C9: on an input without a trip_created event the run never shows the map
\* and ends in the error outcome: pickup and drops were never assigned.
C9_NoTripCreatedNoMap ==
    OfType("trip_created") = {} =>
        /\ ~rendered
        /\ markers = Unbound /\ osrm = "none"
        /\ pc \notin {"separate", "passenger"} => (pickup = Unbound /\ drops = Unbound)
        /\ pc # "osrm"
        /\ pc = "done" => error # NoneV

\* C9 witness: a run over events none of which is trip_created went through
\* every table and ended at the map's read of pickup
C9_Witness ==
    /\ OfType("trip_created") = {}
    /\ Len(data) >= 1
    /\ pc = "done"
    /\ df_timeline # Unbound
    /\ error = StrV("NameError: pickup")

\* e.get("body", {})
BodyOf(e) == GetOr(e, "body", EmptyDict)

IsSelection(e) == IsType(e, "driver_selected") \/ IsType(e, "driver_assigned")

\* the driver entries of an event
DriversOf(e) == GetOr(BodyOf(e), "drivers", EmptyList).items

\* the number of driver entries of the selection and assignment events
\* before position i of the input
RECURSIVE EntriesBefore(_)
EntriesBefore(i) ==
    IF i <= 1 THEN 0
    ELSE EntriesBefore(i - 1)
         + (IF IsSelection(data[i - 1]) THEN Len(DriversOf(data[i - 1])) ELSE 0)

\* the trip_accepted events with the trip_id and driver_id of a bidding row
AcceptedFor(row) ==
    {i \in OfType("trip_accepted") :
        /\ Get(BodyOf(data[i]), "trip_id") = Get(row, "Trip ID")
        /\ Get(BodyOf(data[i]), "driver_id") = Get(row, "Driver ID")}

\* C5: every driver entry of every driver_selected or driver_assigned event
\* has one bidding row, in input order, with Assigned? true exactly for
\* driver_assigned; a row has Winner? true and the bid_amount of a
\* trip_accepted event exactly when some trip_accepted event of the input,
\* before or after, has the row's trip_id and driver_id; every other row has
\* Winner? false and no Bid Amount.
C5_BiddingRows ==
    bidding_rows # Unbound =>
        LET rows == bidding_rows.items IN
        /\ Len(rows) = EntriesBefore(Len(data) + 1)
        /\ \A i \in 1..Len(data) :
              IsSelection(data[i]) =>
                  \A j \in 1..Len(DriversOf(data[i])) :
                      LET row == rows[EntriesBefore(i) + j] IN
                      /\ Get(row, "Trip ID") = Get(BodyOf(data[i]), "trip_id")
                      /\ Get(row, "Driver ID") = Get(DriversOf(data[i])[j], "driver_id")
                      /\ Get(row, "Assigned?") = BoolV(IsType(data[i], "driver_assigned"))
        /\ \A k \in 1..Len(rows) :
              /\ Get(rows[k], "Winner?") = BoolV(AcceptedFor(rows[k]) # {})
              /\ AcceptedFor(rows[k]) # {} =>
                    \E i \in AcceptedFor(rows[k]) :
                        Get(rows[k], "Bid Amount") = Get(BodyOf(data[i]), "bid_amount")
              /\ AcceptedFor(rows[k]) = {} => Get(rows[k], "Bid Amount") = NoneV

\* C5 witness: a trip_accepted event ahead of the driver_assigned event whose
\* driver 7 it makes the winner at 100, beside driver 8 who is not
C5_Witness ==
    /\ pc = "timeline"
    /\ Len(data) = 2
    /\ IsType(data[1], "trip_accepted")
    /\ IsType(data[2], "driver_assigned")
    /\ Len(bidding_rows.items) = 2
    /\ Get(bidding_rows.items[1], "Winner?") = BoolV(TRUE)
    /\ Get(bidding_rows.items[1], "Bid Amount") = IntV(100)
    /\ Get(bidding_rows.items[1], "Assigned?") = BoolV(TRUE)
    /\ Get(bidding_rows.items[2], "Winner?") = BoolV(FALSE)

\* the body the Actual Trip Details section reads for a named event
BodyFor(name) ==
    IF OfType(name) = {} THEN EmptyDict ELSE Item(Selected(name), StrV("body"))

\* body["trip"] of the trip_completed event, empty without one
TripOfCompleted ==
    IF HasKey(BodyFor("trip_completed"), StrV("trip"))
    THEN Item(BodyFor("trip_completed"), StrV("trip")) ELSE EmptyDict

\* the trip_ended body's value under key when it has the key, else the
\* trip_completed body's trip value, else None
EndedThenCompleted(key) ==
    IF HasKey(BodyFor("trip_ended"), StrV(key)) THEN Item(BodyFor("trip_ended"), StrV(key))
    ELSE IF HasKey(TripOfCompleted, StrV(key)) THEN Item(TripOfCompleted, StrV(key))
    ELSE NoneV

FromCompleted ==
    {"Passenger ID", "Pickup Address", "Drop Address", "Total Trip Cost",
     "Promotion Code", "Tip", "Payment Method"}

FromEnded ==
    {"Distance Travelled (m)", "Waiting Time (sec)", "Actual Duration (sec)",
     "Estimated Distance", "Lost Mileage"}

\* C7: once the Actual Trip Details section has run, the record exists
\* exactly when the input has a trip_completed or a trip_ended event; its
\* Driver ID and Currency are the trip_ended body's when that body has the
\* key and the trip_completed body's trip values otherwise; with only one of
\* the two events the fields read from the other are None.
C7_ActualTripDetails ==
    Past({"bidding", "timeline", "map", "osrm"}, {ErrDrops}) =>
        /\ actual # Unbound <=>
              (OfType("trip_completed") # {} \/ OfType("trip_ended") # {})
        /\ actual # Unbound =>
              /\ Get(actual, "Driver ID") = EndedThenCompleted("driver_id")
              /\ Get(actual, "Currency") = EndedThenCompleted("currency_code")
              /\ OfType("trip_completed") = {} =>
                    \A f \in FromCompleted : Get(actual, f) = NoneV
              /\ OfType("trip_ended") = {} =>
                    \A f \in FromEnded : Get(actual, f) = NoneV

\* C7 witness: both events, the trip_ended body's driver 9 shown over the
\* trip_completed body's driver 7
C7_Witness ==
    /\ pc = "bidding"
    /\ OfType("trip_completed") # {} /\ OfType("trip_ended") # {}
    /\ Get(TripOfCompleted, "driver_id") = IntV(7)
    /\ Get(actual, "Driver ID") = IntV(9)
    /\ Get(actual, "Currency") = StrV("USD")
    /\ Get(actual, "Total Trip Cost") = IntV(500)

\* the positions of the events whose body holds a trip_id that is not null
WithTripId ==
    {i \in 1..Len(data) :
        /\ HasKey(data[i], StrV("body"))
        /\ HasKey(Item(data[i], StrV("body")), StrV("trip_id"))
        /\ Item(Item(data[i], StrV("body")), StrV("trip_id")) # NoneV}

\* v is the value of the first business_metadata entry of e whose key is
\* ride_id, None without such an entry
IsRideIdOf(e, v) ==
    LET ms == IF HasKey(BodyOf(e), StrV("business_metadata"))
              THEN Item(BodyOf(e), StrV("business_metadata")).items ELSE << >>
        at == {m \in 1..Len(ms) : Get(ms[m], "key") = StrV("ride_id")}
    IN IF at = {} THEN v = NoneV
       ELSE \E m \in at : (\A n \in at : m <= n) /\ v = Get(ms[m], "value")

\* what the de-duplication of lines 102-106 compares
OverviewKey(row) ==
    << PyStr(Get(row, "Ride ID")), Get(row, "Trip ID"), Get(row, "Event"),
       PyStr(Get(row, "Driver ID")) >>

ShownOverview == IF df_ride_trip = Unbound THEN << >> ELSE df_ride_trip.rows

\* C10: the overview has a row for an event exactly when the event's
\* body.trip_id is present and not null, with the Ride ID of the first
\* ride_id entry of business_metadata (None without one); the displayed rows
\* are these rows with Ride ID and Driver ID as text, the first in input order
\* of every group that agrees on (Ride ID, Trip ID, Event, Driver ID), so no
\* two displayed rows agree on all four.
C10_RideTripOverview ==
    ride_trip_rows # Unbound =>
        LET rows == ride_trip_rows.items IN
        /\ Len(rows) = Cardinality(WithTripId)
        /\ \A i \in WithTripId :
              LET row == rows[Cardinality({j \in WithTripId : j <= i})] IN
              /\ Get(row, "Trip ID") = Get(BodyOf(data[i]), "trip_id")
              /\ IsRideIdOf(data[i], Get(row, "Ride ID"))
              /\ Get(row, "Event") = Get(data[i], "type")
              /\ Get(row, "Driver ID") = Get(BodyOf(data[i]), "driver_id")
        /\ \A k, l \in 1..Len(ShownOverview) :
              /\ k # l => SubsetKey(ShownOverview[k].row, RideTripSubset)
                            # SubsetKey(ShownOverview[l].row, RideTripSubset)
              /\ k < l => ShownOverview[k].index < ShownOverview[l].index
        /\ \A k \in 1..Len(ShownOverview) :
              LET at == ShownOverview[k].index + 1 IN
              /\ at \in 1..Len(rows)
              /\ SubsetKey(ShownOverview[k].row, RideTripSubset) = OverviewKey(rows[at])
              /\ \A j \in 1..(at - 1) : OverviewKey(rows[j]) # OverviewKey(rows[at])
        /\ \A j \in 1..Len(rows) :
              \E k \in 1..Len(ShownOverview) :
                  SubsetKey(ShownOverview[k].row, RideTripSubset) = OverviewKey(rows[j])

\* C10 witness: of three events one has a null trip_id and two differ only in
\* driver 7 given as a number and as text; one row is shown, with ride 5
C10_Witness ==
    /\ pc = "estimated"
    /\ Len(data) = 3
    /\ \E i \in 1..3 : /\ HasKey(BodyOf(data[i]), StrV("trip_id"))
                       /\ i \notin WithTripId
    /\ Len(ride_trip_rows.items) = 2
    /\ ride_trip_rows.items[1] # ride_trip_rows.items[2]
    /\ Len(ShownOverview) = 1
    /\ ShownOverview[1].index = 0
    /\ Get(ShownOverview[1].row, "Ride ID") = StrV("5")

====
